---- MODULE Spec2Model ----
(***************************************************************************)
(* A model of SimpleSqlRs: src/src/value.rs, src/src/column.rs and         *)
(* src/src/table.rs.                                                       *)
(*                                                                         *)
(* A Value (Rc<str>) is a sequence of character codes; equality and order  *)
(* are by content.  A Column is a handle (Rc) to a ColumnData instance; the*)
(* instances live in `heap` and a handle is a position in it, so that two  *)
(* tables holding clones of one column hold the same position.  A Table is *)
(* a function from column names to handles (HashMap<Value, Column>).       *)
(* Row positions are 1-based here and 0-based in the source.               *)
(* HashMap iteration order is unspecified: wherever the outcome of a loop  *)
(* over a HashMap depends on the order, the order is an input of the       *)
(* operator and the action draws it from all permutations.                 *)
(***************************************************************************)
EXTENDS Integers, Sequences, FiniteSets, TLC

\* Bounds of the model.
MaxRows == 2
MaxTables == 3
MaxIndexed == 1
MaxGroupRows == 3
MaxJoinRows == 2

\* Column names and cell characters the caller draws from.
NameOrder == <<"a", "b">>
Names == {NameOrder[i] : i \in DOMAIN NameOrder}
Chars == {1, 2}
BaseVals == {<<c>> : c \in Chars}
SepChar == <<0>>

----------------------------------------------------------------------------
\* Generic helpers.

Range(s) == {s[i] : i \in DOMAIN s}

Perms(S) == {p \in [1..Cardinality(S) -> S] : \A x \in S : \E i \in DOMAIN p : p[i] = x}

SeqsUpTo(S, n) == UNION {[1..k -> S] : k \in 0..n}

\* HashMap::insert
Insert(m, k, v) == [x \in (DOMAIN m) \cup {k} |-> IF x = k THEN v ELSE m[x]]

EmptyMap == <<>>

\* The members of S in the order of NameOrder (the order in which the model
\* allocates the new columns of a result; it has no counterpart in the source).
InOrder(S) == SelectSeq(NameOrder, LAMBDA n : n \in S)

RECURSIVE Flatten(_)
Flatten(ss) == IF ss = <<>> THEN <<>> ELSE Head(ss) \o Flatten(Tail(ss))

----------------------------------------------------------------------------
\* value.rs

\* #[derive(PartialOrd, Ord)] on Value(Rc<str>): byte-wise lexicographic order.
RECURSIVE ValueLess(_, _)
ValueLess(x, y) ==
    IF y = <<>> THEN FALSE
    ELSE IF x = <<>> THEN TRUE
    ELSE IF Head(x) # Head(y) THEN Head(x) < Head(y)
    ELSE ValueLess(Tail(x), Tail(y))

----------------------------------------------------------------------------
\* column.rs

None == [some |-> FALSE, index |-> EmptyMap]
Some(ix) == [some |-> TRUE, index |-> ix]

\* Column::new.  `borrows` is the borrow state of the RefCell maybe_index:
\* the number of Ref views of it that are alive.  `built` is a history field:
\* how often an index was built for this instance.
Column_new(cells) == [cells |-> cells, maybe_index |-> None, borrows |-> 0, built |-> 0]

\* Column::remap
Column_remap(col, indices) ==
    Column_new([i \in 1..Len(indices) |-> col.cells[indices[i]]])

\* The loop of Column::get_index, from cell i on.
RECURSIVE IndexLoop(_, _, _)
IndexLoop(cells, i, index) ==
    IF i > Len(cells) THEN index
    ELSE LET cell == cells[i]
         IN  IndexLoop(cells, i + 1,
                 IF cell \in DOMAIN index
                 THEN [index EXCEPT ![cell] = Append(@, i)]
                 ELSE Insert(index, cell, <<i>>))

\* A get_index that builds the index on every call.
GetIndexAlwaysBuilds(col) ==
    [col EXCEPT !.maybe_index = Some(IndexLoop(col.cells, 1, EmptyMap)),
                !.built = @ + 1]

\* Column::get_index, line 40: borrow_mut() panics ("already borrowed") while
\* a Ref view of maybe_index is alive.
BorrowMutPanics(col) == col.borrows > 0

\* Column::get_index: the column instance after a call that did not panic,
\* once the returned view is dropped.
Column_get_index(col) ==
    IF ~col.maybe_index.some
    THEN [col EXCEPT !.maybe_index = Some(IndexLoop(col.cells, 1, EmptyMap)),
                     !.built = @ + 1]
    ELSE col

\* Column::has_index
Column_has_index(col) == col.maybe_index.some

\* Index builds so far, over all instances.
RECURSIVE TotalBuilt(_)
TotalBuilt(h) == IF h = <<>> THEN 0 ELSE Head(h).built + TotalBuilt(Tail(h))

----------------------------------------------------------------------------
\* State.

VARIABLES
    heap,    \* the ColumnData instances, by handle
    tables,  \* the tables the caller holds
    last     \* the call that has just returned, if any

vars == <<heap, tables, last>>

NoCall ==
    [op |-> "none", self |-> 0, other |-> 0, n1 |-> "", n2 |-> "",
     names |-> <<>>, res |-> "none", out |-> 0, missing |-> "", h0 |-> 0,
     swaps |-> 0, rs |-> <<>>, ro |-> <<>>, groups |-> <<>>, ops |-> <<>>,
     flag |-> FALSE, flag2 |-> FALSE, built |-> 0]

Idle == last.op = "none" /\ Len(tables) < MaxTables

\* Results of operators: the heap after the call and Ok(table) or Err(name).
Ok(h, t) == [heap |-> h, res |-> "ok", table |-> t, missing |-> ""]
Err(h, name) == [heap |-> h, res |-> "err", table |-> EmptyMap, missing |-> name]
\* A call that panicked.
Panic(h) == [heap |-> h, res |-> "panic", table |-> EmptyMap, missing |-> ""]

\* A new table whose columns are new instances holding cellsOf[name].
NewTable(h, cellsOf) ==
    LET ord == InOrder(DOMAIN cellsOf)
        pos(n) == CHOOSE i \in DOMAIN ord : ord[i] = n
    IN  Ok(h \o [i \in DOMAIN ord |-> Column_new(cellsOf[ord[i]])],
           [n \in DOMAIN cellsOf |-> Len(h) + pos(n)])

\* The caller's view of a returned call.
Returned(r, call) ==
    /\ heap' = r.heap
    /\ tables' = IF r.res = "ok" THEN Append(tables, r.table) ELSE tables
    /\ last' = [call EXCEPT !.res = r.res, !.missing = r.missing,
                            !.h0 = Len(heap),
                            !.out = IF r.res = "ok" THEN Len(tables) + 1 ELSE 0]

----------------------------------------------------------------------------
\* TableBuilder

\* TableBuilder::new, add_row for every row, build.  Every row has as many
\* cells as the header (add_row rejects any other), and build inserts the
\* columns in header order, so that of two columns of one name the later stays.
RECURSIVE BuildLoop(_, _, _, _)
BuildLoop(header, rows, i, acc) ==
    IF i > Len(header) THEN acc
    ELSE BuildLoop(header, rows, i + 1,
             Insert(acc, header[i], [r \in 1..Len(rows) |-> rows[r][i]]))

TableBuilder_build(h, header, rows) == NewTable(h, BuildLoop(header, rows, 1, EmptyMap))

Build ==
    /\ Idle
    /\ \E header \in SeqsUpTo(Names, Len(NameOrder)) :
       \E n \in 0..MaxRows :
       \E rows \in [1..n -> [1..Len(header) -> BaseVals]] :
           \E r \in {TableBuilder_build(heap, header, rows)} :
           Returned(r, [NoCall EXCEPT !.op = "build"])

----------------------------------------------------------------------------
\* Calls on a column the caller obtained with Table::column.

\* column.get_index() on the instance c; the returned view is a temporary,
\* dropped when the statement ends.
GetIndexOn(c) ==
    /\ heap' = IF BorrowMutPanics(heap[c]) THEN heap
               ELSE [heap EXCEPT ![c] = Column_get_index(@)]
    /\ last' = [NoCall EXCEPT !.op = "get_index", !.self = c,
                              !.res = IF BorrowMutPanics(heap[c]) THEN "panic" ELSE "ok",
                              !.h0 = Len(heap),
                              !.flag = Column_has_index(heap[c])]
    /\ UNCHANGED tables

\* The caller's own get_index calls build at most MaxIndexed indexes (the
\* operators build theirs besides).
GetIndex ==
    /\ Idle
    /\ \E c \in DOMAIN heap :
          /\ Column_has_index(heap[c]) \/ TotalBuilt(heap) < MaxIndexed
          /\ GetIndexOn(c)

\* let view = column.get_index(): the caller keeps the returned Ref, so the
\* RefCell stays borrowed.  flag2 records that the view is kept.
GetIndexKeep ==
    /\ Idle
    /\ \E c \in DOMAIN heap :
          /\ heap' = IF BorrowMutPanics(heap[c]) THEN heap
                     ELSE [heap EXCEPT ![c] = [Column_get_index(@) EXCEPT !.borrows = @ + 1]]
          /\ last' = [NoCall EXCEPT !.op = "get_index", !.self = c,
                                    !.res = IF BorrowMutPanics(heap[c]) THEN "panic" ELSE "ok",
                                    !.h0 = Len(heap),
                                    !.flag = Column_has_index(heap[c]),
                                    !.flag2 = TRUE]
          /\ UNCHANGED tables

\* drop(view): a Ref the caller kept goes out of scope.
DropView ==
    /\ Idle
    /\ \E c \in DOMAIN heap :
          /\ heap[c].borrows > 0
          /\ heap' = [heap EXCEPT ![c].borrows = @ - 1]
          /\ UNCHANGED <<tables, last>>

HasIndex ==
    /\ Idle
    /\ \E c \in DOMAIN heap :
          /\ last' = [NoCall EXCEPT !.op = "has_index", !.self = c, !.res = "ok",
                                    !.h0 = Len(heap),
                                    !.flag = Column_has_index(heap[c])]
          /\ UNCHANGED <<heap, tables>>

\* The caller takes the result; the next call can start.  A panic ends the
\* program, and so does the caller's last table.
Return ==
    /\ last.op # "none"
    /\ last.res # "panic"
    /\ Len(tables) < MaxTables
    /\ last' = NoCall
    /\ UNCHANGED <<heap, tables>>

----------------------------------------------------------------------------
\* table.rs: the operators.  Each takes the heap and returns the heap after
\* the call with Ok(table) or Err(missing column).

CellsOf(h, t, n) == h[t[n]].cells

\* Table::rows_count: the length of whichever column the HashMap yields first
\* (`first` is that column's name), 0 without columns.
RowsCountAt(h, t, first) == IF DOMAIN t = {} THEN 0 ELSE Len(CellsOf(h, t, first))

\* Table::rows_count with the first column drawn from the order of NameOrder.
Table_rows_count(h, t) ==
    IF DOMAIN t = {} THEN 0 ELSE RowsCountAt(h, t, InOrder(DOMAIN t)[1])

\* Table::column
Table_column(h, t, col_name) ==
    IF col_name \in DOMAIN t
    THEN [heap |-> h, res |-> "column", table |-> EmptyMap, missing |-> ""]
    ELSE Err(h, col_name)

\* Table::select_columns: the loop from the i-th name on.
RECURSIVE SelectLoop(_, _, _, _, _)
SelectLoop(h, t, col_names, i, columns) ==
    IF i > Len(col_names) THEN Ok(h, columns)
    ELSE IF col_names[i] \notin DOMAIN t THEN Err(h, col_names[i])
    ELSE SelectLoop(h, t, col_names, i + 1, Insert(columns, col_names[i], t[col_names[i]]))

Table_select_columns(h, t, col_names) == SelectLoop(h, t, col_names, 1, EmptyMap)

\* usize subtraction `self.columns.len() - 1`: a debug build panics on
\* underflow, a release build wraps to usize::MAX = 2^64 - 1.  That number is
\* beyond the checker's integers; UsizeMax stands for it and, like it, is the
\* length of no HashMap.
UsizeMax == 0 - 1
UsizeSubOne(n, build) ==
    IF n >= 1 THEN [panic |-> FALSE, value |-> n - 1]
    ELSE IF build = "debug" THEN [panic |-> TRUE, value |-> 0]
    ELSE [panic |-> FALSE, value |-> UsizeMax]

\* Table::deselect_column
Table_deselect_column(h, t, col_name, build) ==
    LET columns == [n \in (DOMAIN t) \ {col_name} |-> t[n]]
        expect == UsizeSubOne(Cardinality(DOMAIN t), build)
    IN  IF expect.panic
        THEN Panic(h)
        ELSE IF Cardinality(DOMAIN columns) # expect.value THEN Err(h, col_name)
        ELSE Ok(h, columns)

\* Table::rename_column: the loop over self.columns.iter(), which visits the
\* columns in `order`.
RECURSIVE RenameLoop(_, _, _, _, _, _)
RenameLoop(t, order, i, old_col_name, new_col_name, columns) ==
    IF i > Len(order) THEN columns
    ELSE LET name == IF old_col_name = order[i] THEN new_col_name ELSE order[i]
         IN  RenameLoop(t, order, i + 1, old_col_name, new_col_name,
                        Insert(columns, name, t[order[i]]))

Table_rename_column(h, t, old_col_name, new_col_name, order) ==
    LET not_found == old_col_name \notin Range(order)
    IN  IF not_found THEN Err(h, old_col_name)
        ELSE Ok(h, RenameLoop(t, order, 1, old_col_name, new_col_name, EmptyMap))

\* Table::remap: every column remapped into a new instance.
Table_remap(h, t, positions) ==
    NewTable(h, [n \in DOMAIN t |-> Column_remap(h[t[n]], positions).cells])

\* enumerate().filter_map(..).collect(): the positions of `cells` that are in
\* `keep`, ascending.
Positions(cells, keep) ==
    SelectSeq([i \in 1..Len(cells) |-> i], LAMBDA i : i \in keep)

\* A filter_column that remaps even when every row is retained.
FilterAlwaysRemaps(h, t, col_name, accept) ==
    IF col_name \notin DOMAIN t THEN Err(h, col_name)
    ELSE LET cells == CellsOf(h, t, col_name)
         IN  Table_remap(h, t, Positions(cells, {i \in DOMAIN cells : cells[i] \in accept}))

\* Table::filter_column; the predicate is membership in `accept`.
Table_filter_column(h, t, col_name, accept) ==
    IF col_name \notin DOMAIN t THEN Err(h, col_name)
    ELSE LET cells == CellsOf(h, t, col_name)
             retained_positions ==
                 Positions(cells, {i \in DOMAIN cells : cells[i] \in accept})
         IN  IF Len(retained_positions) = Table_rows_count(h, t)
             THEN Ok(h, t)
             ELSE Table_remap(h, t, retained_positions)

\* Table::diff_on_columns
Table_diff_on_columns(h, self, col_name_self, other, col_name_other) ==
    IF col_name_self \notin DOMAIN self THEN Err(h, col_name_self)
    ELSE IF col_name_other \notin DOMAIN other THEN Err(h, col_name_other)
    ELSE LET column_other == other[col_name_other]
             h1 == [h EXCEPT ![column_other] = Column_get_index(@)]
             other_index == h1[column_other].maybe_index.index
             cells == CellsOf(h1, self, col_name_self)
             retained_positions ==
                 Positions(cells, {i \in DOMAIN cells : cells[i] \notin DOMAIN other_index})
         IN  IF BorrowMutPanics(h[column_other]) THEN Panic(h)
             ELSE Table_remap(h1, self, retained_positions)

\* The caller's closures for map_column.
MapFns == {"one", "twice"}
ApplyMap(f, v) == IF f = "one" THEN <<1>> ELSE v \o v

\* Table::map_column
Table_map_column(h, t, col_name, f) ==
    IF col_name \notin DOMAIN t THEN Err(h, col_name)
    ELSE LET column_cells == CellsOf(h, t, col_name)
             mapped_cells == [i \in 1..Len(column_cells) |-> ApplyMap(f, column_cells[i])]
         IN  [heap |-> Append(h, Column_new(mapped_cells)), res |-> "ok",
              table |-> [n \in DOMAIN t |-> IF n = col_name THEN Len(h) + 1 ELSE t[n]],
              missing |-> ""]

\* Table::dinstinct_column
Table_dinstinct_column(h, t, col_name) ==
    IF col_name \notin DOMAIN t THEN Err(h, col_name)
    ELSE LET cells == CellsOf(h, t, col_name)
             positions ==
                 Positions(cells, {i \in DOMAIN cells : \A j \in 1..(i - 1) : cells[j] # cells[i]})
         IN  Table_remap(h, t, positions)

\* slice::sort_by_key, a stable sort: position p is placed into the sorted
\* prefix after every entry whose value is not greater.
RECURSIVE SortInsert(_, _, _)
SortInsert(sorted, cells, p) ==
    IF sorted = <<>> THEN <<p>>
    ELSE IF ValueLess(cells[p], cells[Head(sorted)]) THEN <<p>> \o sorted
    ELSE <<Head(sorted)>> \o SortInsert(Tail(sorted), cells, p)

RECURSIVE StableSort(_, _, _)
StableSort(cells, p, sorted) ==
    IF p > Len(cells) THEN sorted
    ELSE StableSort(cells, p + 1, SortInsert(sorted, cells, p))

\* Table::sort_column
Table_sort_column(h, t, col_name) ==
    IF col_name \notin DOMAIN t THEN Err(h, col_name)
    ELSE Table_remap(h, t, StableSort(CellsOf(h, t, col_name), 1, <<>>))

\* Table::concatenate; when several columns are missing in `other`, the one
\* the iteration meets first is reported: `first_missing` is that choice.
Table_concatenate(h, self, other, first_missing) ==
    IF (DOMAIN self) \ (DOMAIN other) # {}
    THEN Err(h, first_missing)
    ELSE NewTable(h, [n \in DOMAIN self |-> CellsOf(h, self, n) \o CellsOf(h, other, n)])

\* A create_fixed_column that sizes the column by columns_count.
FixedColumnByColumnsCount(h, t, col_name, fixed_value) ==
    LET cells == [i \in 1..Cardinality(DOMAIN t) |-> fixed_value]
    IN  [heap |-> Append(h, Column_new(cells)), res |-> "ok",
         table |-> Insert(t, col_name, Len(h) + 1), missing |-> ""]

\* Table::create_fixed_column
Table_create_fixed_column(h, t, col_name, fixed_value) ==
    LET cells == [i \in 1..Table_rows_count(h, t) |-> fixed_value]
    IN  [heap |-> Append(h, Column_new(cells)), res |-> "ok",
         table |-> Insert(t, col_name, Len(h) + 1), missing |-> ""]

\* The first name of `names`, from the i-th on, that is no column of t; "" if none.
RECURSIVE FirstMissing(_, _, _)
FirstMissing(t, names, i) ==
    IF i > Len(names) THEN ""
    ELSE IF names[i] \notin DOMAIN t THEN names[i]
    ELSE FirstMissing(t, names, i + 1)

\* Table::create_column; the MiOp's closure joins its arguments.
Table_create_column(h, t, in_columns, out_column) ==
    LET miss == FirstMissing(t, in_columns, 1)
    IN  IF miss # "" THEN Err(h, miss)
        ELSE LET col_rows ==
                     [position \in 1..Table_rows_count(h, t) |->
                         Flatten([k \in 1..Len(in_columns) |->
                                     CellsOf(h, t, in_columns[k])[position]])]
             IN  [heap |-> Append(h, Column_new(col_rows)), res |-> "ok",
                  table |-> Insert(t, out_column, Len(h) + 1), missing |-> ""]

\* Table::concatenate_columns
Table_concatenate_columns(h, t, col_1, separator, col_2, new_col) ==
    IF col_1 \notin DOMAIN t THEN Err(h, col_1)
    ELSE IF col_2 \notin DOMAIN t THEN Err(h, col_2)
    ELSE LET c1 == CellsOf(h, t, col_1)
             c2 == CellsOf(h, t, col_2)
             n == IF Len(c1) <= Len(c2) THEN Len(c1) ELSE Len(c2)
             cells == [i \in 1..n |-> c1[i] \o separator \o c2[i]]
         IN  [heap |-> Append(h, Column_new(cells)), res |-> "ok",
              table |-> Insert(t, new_col, Len(h) + 1), missing |-> ""]

\* Table::to_tsv: Err on the first header name that is no column, else the text
\* (the heap and the tables are not touched).
Table_to_tsv(h, t, header) ==
    LET miss == FirstMissing(t, header, 1)
    IN  IF miss # "" THEN Err(h, miss)
        ELSE [heap |-> h, res |-> "text", table |-> EmptyMap, missing |-> ""]

\* A probe loop that pairs a probing row with the first indexed row only.
ProbeFirstHitOnly(self_index, other_cells, position, rs, ro) ==
    LET hits == SelectSeq([i \in 1..Len(other_cells) |-> i],
                          LAMBDA i : i >= position /\ other_cells[i] \in DOMAIN self_index)
    IN  [rs |-> rs \o [k \in 1..Len(hits) |-> self_index[other_cells[hits[k]]][1]],
         ro |-> ro \o hits]

\* Table::join_on_columns, lines 336-352: the join with the index on self.
\* rs and ro are remapped_positions_self and remapped_positions_other.
RECURSIVE ProbeLoop(_, _, _, _, _)
ProbeLoop(self_index, other_cells, position, rs, ro) ==
    IF position > Len(other_cells) THEN [rs |-> rs, ro |-> ro]
    ELSE LET other_value == other_cells[position]
         IN  IF other_value \in DOMAIN self_index
             THEN LET hit == self_index[other_value]
                  IN  ProbeLoop(self_index, other_cells, position + 1,
                                rs \o hit, ro \o [k \in 1..Len(hit) |-> position])
             ELSE ProbeLoop(self_index, other_cells, position + 1, rs, ro)

JoinIndexedOnSelf(h, self, col_name_self, other, col_name_other) ==
    LET column_self == self[col_name_self]
        h1 == [h EXCEPT ![column_self] = Column_get_index(@)]
        self_index == h1[column_self].maybe_index.index
        p == ProbeLoop(self_index, CellsOf(h1, other, col_name_other), 1, <<>>, <<>>)
        \* table1.columns.extend(table2.columns): other's columns overwrite
        cellsOf == [n \in (DOMAIN self) \cup (DOMAIN other) |->
                      IF n \in DOMAIN other
                      THEN Column_remap(h1[other[n]], p.ro).cells
                      ELSE Column_remap(h1[self[n]], p.rs).cells]
        r == NewTable(h1, cellsOf)
    IN  IF BorrowMutPanics(h[column_self])
        THEN [heap |-> h, res |-> "panic", table |-> EmptyMap, missing |-> "",
              swaps |-> 0, rs |-> <<>>, ro |-> <<>>]
        ELSE [heap |-> r.heap, res |-> "ok", table |-> r.table, missing |-> "",
              swaps |-> 0, rs |-> p.rs, ro |-> p.ro]

\* A heuristic that forgets to ask whether other's key column has an index.
IndexOnSelfIgnoringOther(column_self, column_other) ==
    \/ Column_has_index(column_self)
    \/ Len(column_self.cells) <= Len(column_other.cells)

\* Table::join_on_columns, line 332: whether this call indexes self.
IndexOnSelf(column_self, column_other) ==
    \/ Column_has_index(column_self)
    \/ (~Column_has_index(column_other)
        /\ Len(column_self.cells) <= Len(column_other.cells))

\* Table::join_on_columns; `swaps` counts the recursive calls.
RECURSIVE Table_join_on_columns(_, _, _, _, _)
Table_join_on_columns(h, self, col_name_self, other, col_name_other) ==
    LET fail(name) == [heap |-> h, res |-> "err", table |-> EmptyMap, missing |-> name,
                       swaps |-> 0, rs |-> <<>>, ro |-> <<>>]
    IN  IF col_name_self \notin DOMAIN self THEN fail(col_name_self)
        ELSE IF col_name_other \notin DOMAIN other THEN fail(col_name_other)
        ELSE IF IndexOnSelf(h[self[col_name_self]], h[other[col_name_other]])
        THEN JoinIndexedOnSelf(h, self, col_name_self, other, col_name_other)
        ELSE LET r == Table_join_on_columns(h, other, col_name_other, self, col_name_self)
             IN  [r EXCEPT !.swaps = @ + 1]

\* The caller's closures for the Op descriptors of group_by_column.
OpFns == {"join", "count"}
ApplyOp(f, items) == IF f = "join" THEN Flatten(items) ELSE <<Len(items)>>
Descriptors == [column_name : Names, operation : OpFns]
OpLists ==
    {<<>>} \cup {<<d>> : d \in Descriptors}
           \cup {<<d, e>> : d \in {x \in Descriptors : x.operation = "join"},
                            e \in {x \in Descriptors : x.operation = "count"}}

\* A descriptor loop that hands the closure each group's values last first.
RECURSIVE GroupOpsReversed(_, _, _, _, _, _)
GroupOpsReversed(h, t, groups, column_operations, i, columns) ==
    IF i > Len(column_operations) THEN [missing |-> "", columns |-> columns]
    ELSE LET op == column_operations[i]
         IN  IF op.column_name \notin DOMAIN t
             THEN [missing |-> op.column_name, columns |-> columns]
             ELSE LET column_cells == CellsOf(h, t, op.column_name)
                      new_column_cells ==
                          [g \in 1..Len(groups) |->
                              ApplyOp(op.operation,
                                      [k \in 1..Len(groups[g]) |->
                                          column_cells[groups[g][Len(groups[g]) + 1 - k]]])]
                  IN  GroupOpsReversed(h, t, groups, column_operations, i + 1,
                                       Insert(columns, op.column_name, new_column_cells))

\* Table::group_by_column, lines 363-378: the loop over the descriptors from
\* the i-th on; `groups` is groups_index.values() in iteration order.
RECURSIVE GroupOpsLoop(_, _, _, _, _, _)
GroupOpsLoop(h, t, groups, column_operations, i, columns) ==
    IF i > Len(column_operations) THEN [missing |-> "", columns |-> columns]
    ELSE LET op == column_operations[i]
         IN  IF op.column_name \notin DOMAIN t
             THEN [missing |-> op.column_name, columns |-> columns]
             ELSE LET column_cells == CellsOf(h, t, op.column_name)
                      new_column_cells ==
                          [g \in 1..Len(groups) |->
                              ApplyOp(op.operation,
                                      [k \in 1..Len(groups[g]) |-> column_cells[groups[g][k]]])]
                  IN  GroupOpsLoop(h, t, groups, column_operations, i + 1,
                                   Insert(columns, op.column_name, new_column_cells))

\* Table::group_by_column; `order` is the order in which groups_index.values()
\* yields the groups, by their key.
Table_group_by_column(h, t, col_name, column_operations, order) ==
    IF col_name \notin DOMAIN t
    THEN [heap |-> h, res |-> "err", table |-> EmptyMap, missing |-> col_name,
          groups |-> <<>>]
    ELSE LET group_column == t[col_name]
             h1 == [h EXCEPT ![group_column] = Column_get_index(@)]
             groups_index == h1[group_column].maybe_index.index
             groups == [g \in 1..Len(order) |-> groups_index[order[g]]]
             done == GroupOpsLoop(h1, t, groups, column_operations, 1, EmptyMap)
         IN  IF BorrowMutPanics(h[group_column])
             THEN [heap |-> h, res |-> "panic", table |-> EmptyMap, missing |-> "",
                   groups |-> <<>>]
             ELSE IF done.missing # ""
             THEN [heap |-> h1, res |-> "err", table |-> EmptyMap,
                   missing |-> done.missing, groups |-> groups]
             ELSE LET cellsOf ==
                          [n \in DOMAIN t |->
                              IF n \in DOMAIN done.columns THEN done.columns[n]
                              ELSE [g \in 1..Len(groups) |->
                                       CellsOf(h1, t, n)[groups[g][1]]]]
                      r == NewTable(h1, cellsOf)
                  IN  [heap |-> r.heap, res |-> "ok", table |-> r.table,
                       missing |-> "", groups |-> groups]

\* The distinct values of a column: the keys of its index.
KeysOf(h, t, n) == IF n \in DOMAIN t THEN Range(CellsOf(h, t, n)) ELSE {}

----------------------------------------------------------------------------
\* One action per operator: the caller calls it on tables it holds.

Column ==
    /\ Idle
    /\ \E t \in DOMAIN tables, n \in Names :
          \E r \in {Table_column(heap, tables[t], n)} :
          Returned(r, [NoCall EXCEPT !.op = "column", !.self = t, !.n1 = n])

SelectColumns ==
    /\ Idle
    /\ \E t \in DOMAIN tables, col_names \in SeqsUpTo(Names, Len(NameOrder)) :
          \E r \in {Table_select_columns(heap, tables[t], col_names)} :
          Returned(r, [NoCall EXCEPT !.op = "select_columns", !.self = t, !.names = col_names])

DeselectColumn ==
    /\ Idle
    /\ \E t \in DOMAIN tables, n \in Names, build \in {"debug", "release"} :
          \E r \in {Table_deselect_column(heap, tables[t], n, build)} :
          Returned(r, [NoCall EXCEPT !.op = "deselect_column", !.self = t, !.n1 = n])

RenameColumn ==
    /\ Idle
    /\ \E t \in DOMAIN tables, old \in Names, new \in Names :
       \E order \in Perms(DOMAIN tables[t]) :
          \E r \in {Table_rename_column(heap, tables[t], old, new, order)} :
          Returned(r, [NoCall EXCEPT !.op = "rename_column", !.self = t, !.n1 = old,
                                  !.n2 = new, !.names = order])

FilterColumn ==
    /\ Idle
    /\ \E t \in DOMAIN tables, n \in Names, accept \in SUBSET BaseVals :
          \E r \in {Table_filter_column(heap, tables[t], n, accept)} :
          Returned(r, [NoCall EXCEPT !.op = "filter_column", !.self = t, !.n1 = n,
                       !.flag = /\ n \in DOMAIN tables[t]
                                /\ Range(CellsOf(heap, tables[t], n)) \subseteq accept])

DiffOnColumns ==
    /\ Idle
    /\ \E t \in DOMAIN tables, u \in DOMAIN tables, n \in Names, m \in Names :
          \E r \in {Table_diff_on_columns(heap, tables[t], n, tables[u], m)} :
          Returned(r, [NoCall EXCEPT !.op = "diff_on_columns", !.self = t, !.other = u,
                                  !.n1 = n, !.n2 = m])

MapColumn ==
    /\ Idle
    /\ \E t \in DOMAIN tables, n \in Names, f \in MapFns :
          \E r \in {Table_map_column(heap, tables[t], n, f)} :
          Returned(r, [NoCall EXCEPT !.op = "map_column", !.self = t, !.n1 = n])

DinstinctColumn ==
    /\ Idle
    /\ \E t \in DOMAIN tables, n \in Names :
          \E r \in {Table_dinstinct_column(heap, tables[t], n)} :
          Returned(r, [NoCall EXCEPT !.op = "dinstinct_column", !.self = t, !.n1 = n])

SortColumn ==
    /\ Idle
    /\ \E t \in DOMAIN tables, n \in Names :
          \E r \in {Table_sort_column(heap, tables[t], n)} :
          Returned(r, [NoCall EXCEPT !.op = "sort_column", !.self = t, !.n1 = n])

Concatenate ==
    /\ Idle
    /\ \E t \in DOMAIN tables, u \in DOMAIN tables :
       LET lacking == (DOMAIN tables[t]) \ (DOMAIN tables[u])
       IN  \E first_missing \in (IF lacking = {} THEN {""} ELSE lacking) :
              \E r \in {Table_concatenate(heap, tables[t], tables[u], first_missing)} :
              Returned(r, [NoCall EXCEPT !.op = "concatenate", !.self = t, !.other = u])

CreateFixedColumn ==
    /\ Idle
    /\ \E t \in DOMAIN tables, n \in Names, v \in BaseVals :
          \E r \in {Table_create_fixed_column(heap, tables[t], n, v)} :
          Returned(r, [NoCall EXCEPT !.op = "create_fixed_column", !.self = t, !.n1 = n])

CreateColumn ==
    /\ Idle
    /\ \E t \in DOMAIN tables, ins \in SeqsUpTo(Names, Len(NameOrder)), out \in Names :
          \E r \in {Table_create_column(heap, tables[t], ins, out)} :
          Returned(r, [NoCall EXCEPT !.op = "create_column", !.self = t, !.n1 = out,
                                  !.names = ins])

ConcatenateColumns ==
    /\ Idle
    /\ \E t \in DOMAIN tables, c1 \in Names, c2 \in Names, new \in Names :
          \E r \in {Table_concatenate_columns(heap, tables[t], c1, SepChar, c2, new)} :
          Returned(r, [NoCall EXCEPT !.op = "concatenate_columns", !.self = t, !.n1 = new,
                                  !.names = <<c1, c2>>])

JoinOnColumns ==
    /\ Idle
    /\ \E t \in DOMAIN tables, u \in DOMAIN tables, n \in Names, m \in Names :
       \E r \in {Table_join_on_columns(heap, tables[t], n, tables[u], m)} :
           Returned(r, [NoCall EXCEPT !.op = "join_on_columns", !.self = t, !.other = u,
                                      !.n1 = n, !.n2 = m, !.swaps = r.swaps,
                                      !.rs = r.rs, !.ro = r.ro,
                                      !.flag = /\ n \in DOMAIN tables[t]
                                               /\ Column_has_index(heap[tables[t][n]]),
                                      !.flag2 = /\ m \in DOMAIN tables[u]
                                                /\ Column_has_index(heap[tables[u][m]]),
                                      !.built = TotalBuilt(r.heap) - TotalBuilt(heap)])

GroupByColumn ==
    /\ Idle
    /\ \E t \in DOMAIN tables, n \in Names, ops \in OpLists :
       \E order \in Perms(KeysOf(heap, tables[t], n)) :
       \E r \in {Table_group_by_column(heap, tables[t], n, ops, order)} :
           Returned(r, [NoCall EXCEPT !.op = "group_by_column", !.self = t, !.n1 = n,
                                      !.ops = ops, !.groups = r.groups])

ToTsv ==
    /\ Idle
    /\ \E t \in DOMAIN tables, header \in SeqsUpTo(Names, Len(NameOrder)) :
          \E r \in {Table_to_tsv(heap, tables[t], header)} :
          Returned(r, [NoCall EXCEPT !.op = "to_tsv", !.self = t, !.names = header])

Init ==
    /\ heap = <<>>
    /\ tables = <<>>
    /\ last = NoCall

Next ==
    \/ Build
    \/ GetIndex
    \/ HasIndex
    \/ Column
    \/ SelectColumns
    \/ DeselectColumn
    \/ RenameColumn
    \/ FilterColumn
    \/ DiffOnColumns
    \/ MapColumn
    \/ DinstinctColumn
    \/ SortColumn
    \/ Concatenate
    \/ CreateFixedColumn
    \/ CreateColumn
    \/ ConcatenateColumns
    \/ JoinOnColumns
    \/ GroupByColumn
    \/ ToTsv
    \/ Return

Spec == Init /\ [][Next]_vars

\* group_by_column alone, on longer tables: the caller holds one built table
\* of up to MaxGroupRows rows and calls group_by_column on it, after a
\* get_index or not.
InitGroup ==
    /\ \E header \in SeqsUpTo(Names, Len(NameOrder)) :
       \E n \in 0..MaxGroupRows :
       \E rows \in [1..n -> [1..Len(header) -> BaseVals]] :
           LET r == TableBuilder_build(<<>>, header, rows)
           IN  heap = r.heap /\ tables = <<r.table>>
    /\ last = NoCall

NextGroup ==
    \/ Len(tables) = 1 /\ GetIndex
    \/ Len(tables) = 1 /\ GroupByColumn
    \/ Len(tables) = 1 /\ Return

SpecGroup == InitGroup /\ [][NextGroup]_vars

\* Index views kept across calls: the caller holds one built table of up to
\* MaxRows rows, keeps and drops views returned by get_index, and calls
\* get_index, has_index and the operators that call get_index, on the table
\* and on tables that share its columns (select_columns).
InitBorrow ==
    /\ \E header \in {InOrder(S) : S \in SUBSET Names} :
       \E n \in 0..MaxRows :
       \E rows \in [1..n -> [1..Len(header) -> BaseVals]] :
           LET r == TableBuilder_build(<<>>, header, rows)
           IN  heap = r.heap /\ tables = <<r.table>>
    /\ last = NoCall

NextBorrow ==
    \/ GetIndexKeep
    \/ DropView
    \/ GetIndex
    \/ HasIndex
    \/ SelectColumns
    \/ DiffOnColumns
    \/ JoinOnColumns
    \/ GroupByColumn
    \/ Return

SpecBorrow == InitBorrow /\ [][NextBorrow]_vars

\* join_on_columns alone: the caller holds two built tables of up to
\* MaxJoinRows rows, calls get_index on any of their columns, and joins the
\* first with itself or with the second; either table can be the first.
\* The headers list distinct names in the order of NameOrder: another header
\* gives the same table under other handles.  The join compares cells for
\* equality only, so the first cell of the first table is fixed: the other
\* choice gives the same runs with the values exchanged.
InitJoin ==
    /\ \E header1 \in {InOrder(S) : S \in SUBSET Names} :
       \E header2 \in {InOrder(S) : S \in SUBSET Names} :
       \E n1 \in 0..MaxJoinRows :
       \E n2 \in 0..MaxJoinRows :
       \E rows1 \in [1..n1 -> [1..Len(header1) -> BaseVals]] :
       \E rows2 \in [1..n2 -> [1..Len(header2) -> BaseVals]] :
           /\ (n1 > 0 /\ header1 # <<>>) => rows1[1][1] = <<1>>
           /\ LET r1 == TableBuilder_build(<<>>, header1, rows1)
                  r2 == TableBuilder_build(r1.heap, header2, rows2)
              IN  heap = r2.heap /\ tables = <<r1.table, r2.table>>
    /\ last = NoCall

NextJoin ==
    \/ Len(tables) = 2 /\ last.op = "none" /\ \E c \in DOMAIN heap : GetIndexOn(c)
    \/ Len(tables) = 2 /\ JoinOnColumns /\ last'.self = 1
    \/ Len(tables) = 2 /\ Return

SpecJoin == InitJoin /\ [][NextJoin]_vars


----------------------------------------------------------------------------
\* Properties.

Result == tables[last.out]
Self == tables[last.self]
Other == tables[last.other]
Called(op) == last.op = op /\ last.res = "ok"

\* C1: in every table the caller can hold, built or returned by any sequence
\* of successful operators, all columns have one length, and rows_count()
\* returns it whichever column the HashMap yields first.
C1_EqualLength ==
    \A t \in DOMAIN tables :
        \A n \in DOMAIN tables[t], first \in DOMAIN tables[t] :
            Len(CellsOf(heap, tables[t], n)) = RowsCountAt(heap, tables[t], first)

\* C1 witness: create_fixed_column has added a column to a table of two rows
\* that kept another column.
C1_Witness ==
    /\ Called("create_fixed_column")
    /\ Cardinality(DOMAIN Result) = 2
    /\ Table_rows_count(heap, Result) = 2

\* The index the cells call for: each distinct value mapped to all its
\* positions, ascending.
IndexOf(cells) ==
    [v \in Range(cells) |->
        SelectSeq([i \in 1..Len(cells) |-> i], LAMBDA i : cells[i] = v)]

IndexRight ==
    \A c \in DOMAIN heap :
        /\ heap[c].built <= 1
        /\ heap[c].maybe_index.some <=> heap[c].built = 1
        /\ heap[c].maybe_index.some => heap[c].maybe_index.index = IndexOf(heap[c].cells)

IndexKept ==
    \A c \in DOMAIN heap :
        /\ c \in DOMAIN heap'
        /\ heap'[c].cells = heap[c].cells
        /\ heap'[c].built >= heap[c].built
        /\ heap[c].maybe_index.some => heap'[c].maybe_index = heap[c].maybe_index

\* C2: for every column instance, over all calls, the cache goes from absent
\* to present at most once and is built at most once, a present cache is
\* never reset or replaced, the cells never change, and a present cache maps
\* each distinct value to the ascending list of all its positions.
C2_IndexLifecycle == [](IndexRight) /\ [][IndexKept]_vars

\* C2 witness: get_index has been called on an instance whose index was
\* already there and which two tables hold.
C2_Witness ==
    /\ last.op = "get_index"
    /\ last.flag
    /\ heap[last.self].built = 1
    /\ \E t, u \in DOMAIN tables :
          /\ t # u
          /\ last.self \in Range(tables[t])
          /\ last.self \in Range(tables[u])

\* The pairs (position in self, position in other) of the rows a join has
\* returned, in row order.
JoinPairs ==
    [k \in 1..Len(last.rs) |->
        IF last.swaps % 2 = 0 THEN <<last.rs[k], last.ro[k]>>
        ELSE <<last.ro[k], last.rs[k]>>]

Matching(S, O) == {<<i, j>> \in (1..Len(S)) \X (1..Len(O)) : S[i] = O[j]}

Count(cells, v) == Cardinality({i \in 1..Len(cells) : cells[i] = v})

RECURSIVE SumOver(_, _, _)
SumOver(S, O, keys) ==
    IF keys = {} THEN 0
    ELSE LET v == CHOOSE x \in keys : TRUE
         IN  Count(S, v) * Count(O, v) + SumOver(S, O, keys \ {v})

\* C3: a join with both key columns present returns exactly the pairs (i, j)
\* with self.selfKey[i] = other.otherKey[j], each once; its row count is the
\* sum over the key values of (occurrences in self x occurrences in other),
\* so a key on one side only gives no row; whichever side is indexed.
C3_JoinPairs ==
    Called("join_on_columns") =>
        LET S == CellsOf(heap, Self, last.n1)
            O == CellsOf(heap, Other, last.n2)
            P == JoinPairs
        IN  /\ Range(P) = Matching(S, O)
            /\ \A k, l \in DOMAIN P : P[k] = P[l] => k = l
            /\ Table_rows_count(heap, Result) = SumOver(S, O, Range(S) \cup Range(O))
            /\ \A n \in DOMAIN Result :
                  /\ Len(CellsOf(heap, Result, n)) = Len(P)
                  /\ \A k \in DOMAIN P :
                        \/ /\ n \in DOMAIN Self
                           /\ CellsOf(heap, Result, n)[k] = CellsOf(heap, Self, n)[P[k][1]]
                        \/ /\ n \in DOMAIN Other
                           /\ CellsOf(heap, Result, n)[k] = CellsOf(heap, Other, n)[P[k][2]]

\* C3 witness: a join that swapped roles, where a key occurs twice on one side
\* and matches, and another key is on one side only.
C3_Witness ==
    /\ Called("join_on_columns")
    /\ last.swaps = 1
    /\ LET S == CellsOf(heap, Self, last.n1)
           O == CellsOf(heap, Other, last.n2)
       IN  /\ \E v \in Range(S) : Count(S, v) = 2 /\ Count(O, v) >= 1
           /\ \E v \in Range(O) : Count(S, v) = 0
           /\ Len(last.rs) >= 2

\* What a table says: its column names and its rows, as a bag.
Rows(h, t) ==
    [k \in 1..Table_rows_count(h, t) |-> [n \in DOMAIN t |-> CellsOf(h, t, n)[k]]]

Logical(h, t) ==
    LET R == Rows(h, t)
    IN  [names |-> DOMAIN t,
         rows |-> [r \in Range(R) |-> Cardinality({k \in DOMAIN R : R[k] = r})]]

\* C4: the result of a join is the same, in column names and in rows as a
\* bag, whether it is computed with the index on self or, roles swapped, with
\* the index on other, whichever of the two the call took; also when the
\* tables have non-key columns of one name.
C4_JoinSideIndependent ==
    Called("join_on_columns") =>
        LET onSelf == JoinIndexedOnSelf(heap, Self, last.n1, Other, last.n2)
            onOther == JoinIndexedOnSelf(heap, Other, last.n2, Self, last.n1)
        IN  /\ Logical(heap, Result) = Logical(onSelf.heap, onSelf.table)
            /\ Logical(heap, Result) = Logical(onOther.heap, onOther.table)

\* The positions of the rows of `cells` that hold v, ascending.
GroupOf(cells, v) == SelectSeq([i \in 1..Len(cells) |-> i], LAMBDA i : cells[i] = v)

DistinctColumns(ops) ==
    \A i, j \in DOMAIN ops : ops[i].column_name = ops[j].column_name => i = j

\* C5: group_by_column, its descriptors on distinct columns, returns one row
\* per distinct value of the grouping column; the groups partition the rows;
\* and the rows are aligned: some order of the groups is such that at row r
\* every descriptor's column holds its function of that column's values at
\* the positions of group r, ascending, and every other column holds the
\* value at the lowest position of group r.
C5_GroupBy ==
    (Called("group_by_column") /\ DistinctColumns(last.ops)) =>
        LET K == CellsOf(heap, Self, last.n1)
            keys == Range(K)
        IN  /\ DOMAIN Result = DOMAIN Self
            /\ \A n \in DOMAIN Result :
                  Len(CellsOf(heap, Result, n)) = Cardinality(keys)
            /\ \A i \in 1..Len(K) :
                  Cardinality({v \in keys : i \in Range(GroupOf(K, v))}) = 1
            /\ \E order \in Perms(keys) :
                  \A r \in DOMAIN order :
                      LET g == GroupOf(K, order[r])
                      IN  \A n \in DOMAIN Result :
                            LET cells == CellsOf(heap, Self, n)
                                named == {i \in DOMAIN last.ops : last.ops[i].column_name = n}
                            IN  IF named # {}
                                THEN LET op == last.ops[CHOOSE i \in named : TRUE]
                                     IN  CellsOf(heap, Result, n)[r] =
                                            ApplyOp(op.operation,
                                                    [k \in 1..Len(g) |-> cells[g[k]]])
                                ELSE CellsOf(heap, Result, n)[r] = cells[g[1]]

\* C5 witness: a grouping into two groups or more, one of them of two rows
\* that differ on the column of the one descriptor, whose function depends on
\* the order; the table has another column, without descriptor.
C5_Witness ==
    /\ Called("group_by_column")
    /\ Len(last.ops) = 1
    /\ last.ops[1].operation = "join"
    /\ Cardinality(DOMAIN Self) = 2
    /\ LET K == CellsOf(heap, Self, last.n1)
       IN  /\ Cardinality(Range(K)) >= 2
           /\ \E v \in Range(K) :
                 /\ Count(K, v) >= 2
                 /\ \E i, j \in Range(GroupOf(K, v)) :
                       CellsOf(heap, Self, last.ops[1].column_name)[i] #
                       CellsOf(heap, Self, last.ops[1].column_name)[j]

\* C6: rename_column(old, new), old a column and new another column: in the
\* result new names the column that was named old, whatever the order in
\* which the HashMap is iterated, and the result has one column fewer.
C6_RenameOverwrites ==
    (/\ Called("rename_column")
     /\ last.n1 # last.n2
     /\ last.n2 \in DOMAIN Self) =>
        /\ Result[last.n2] = Self[last.n1]
        /\ Cardinality(DOMAIN Result) = Cardinality(DOMAIN Self) - 1

\* The (table, column name) pairs a call looks up.
Lookups ==
    IF last.op \in {"column", "deselect_column", "rename_column", "filter_column",
                    "map_column", "dinstinct_column", "sort_column"}
    THEN {<<last.self, last.n1>>}
    ELSE IF last.op \in {"select_columns", "create_column", "concatenate_columns", "to_tsv"}
    THEN {<<last.self, n>> : n \in Range(last.names)}
    ELSE IF last.op \in {"diff_on_columns", "join_on_columns"}
    THEN {<<last.self, last.n1>>, <<last.other, last.n2>>}
    ELSE IF last.op = "group_by_column"
    THEN {<<last.self, last.n1>>}
            \cup {<<last.self, last.ops[i].column_name>> : i \in DOMAIN last.ops}
    ELSE {}

Absent == {l \in Lookups : l[2] \notin DOMAIN tables[l[1]]}

\* C7: no operator panics; on every table, one without columns too, a call
\* that names a column the table has not returns Err naming a missing column.
C7_NoPanic ==
    /\ last.res # "panic"
    /\ Absent # {} => (last.res = "err" /\ \E l \in Absent : last.missing = l[2])

\* C8: concatenate fails iff other lacks a column of self; when it succeeds
\* the result has self's column names, each column self's cells followed by
\* other's, and its rows_count is the sum of the two rows_counts; for all
\* tables, a self without columns too.
C8_Concatenate ==
    last.op = "concatenate" =>
        /\ last.res = "err" <=> ~((DOMAIN Self) \subseteq (DOMAIN Other))
        /\ last.res = "ok" =>
              /\ DOMAIN Result = DOMAIN Self
              /\ \A n \in DOMAIN Result :
                    CellsOf(heap, Result, n) = CellsOf(heap, Self, n) \o CellsOf(heap, Other, n)
              /\ Table_rows_count(heap, Result) =
                    Table_rows_count(heap, Self) + Table_rows_count(heap, Other)

\* C9: a join with both key columns present swaps roles at most once and
\* builds at most one index; if a key column had an index, none is built and
\* the indexed side is one that had it, self if both had; if neither had, the
\* index is built on the key column with fewer rows, on self on a tie.
C9_JoinStrategy ==
    Called("join_on_columns") =>
        LET lenSelf == Len(CellsOf(heap, Self, last.n1))
            lenOther == Len(CellsOf(heap, Other, last.n2))
            onSelf == last.swaps = 0
        IN  /\ last.swaps <= 1
            /\ last.built <= 1
            /\ (last.flag \/ last.flag2) =>
                  /\ last.built = 0
                  /\ IF onSelf THEN last.flag ELSE last.flag2
                  /\ last.flag => onSelf
            /\ (~last.flag /\ ~last.flag2) =>
                  /\ last.built = 1
                  /\ onSelf <=> lenSelf <= lenOther
            /\ Column_has_index(heap[IF onSelf THEN Self[last.n1] ELSE Other[last.n2]])

\* C9 witness: a join of a shorter self without index with a longer other
\* whose key column had one: roles swapped, nothing built.
C9_Witness ==
    /\ Called("join_on_columns")
    /\ ~last.flag
    /\ last.flag2
    /\ Len(CellsOf(heap, Self, last.n1)) < Len(CellsOf(heap, Other, last.n2))
    /\ last.swaps = 1

\* A call leaves the tables the caller held and the cells of every instance
\* as they were, and a present index as it was.
InputsKept ==
    /\ \A t \in DOMAIN tables : t \in DOMAIN tables' /\ tables'[t] = tables[t]
    /\ \A c \in DOMAIN heap :
          /\ c \in DOMAIN heap'
          /\ heap'[c].cells = heap[c].cells
          /\ heap[c].maybe_index.some => heap'[c].maybe_index = heap[c].maybe_index

IsNew(c) == c > last.h0 /\ ~Column_has_index(heap[c])

\* Which columns of a result are the input's instances and which are new.
Sharing ==
    last.res = "ok" /\ last.out # 0 =>
        \A n \in DOMAIN Result :
            CASE last.op \in {"select_columns", "deselect_column"} ->
                    Result[n] = Self[n]
              [] last.op = "rename_column" ->
                    \/ n \in DOMAIN Self /\ Result[n] = Self[n]
                    \/ n = last.n2 /\ Result[n] = Self[last.n1]
              [] last.op \in {"map_column", "create_fixed_column", "create_column",
                              "concatenate_columns"} ->
                    IF n = last.n1 THEN IsNew(Result[n]) ELSE Result[n] = Self[n]
              [] last.op = "filter_column" ->
                    IF last.flag THEN Result[n] = Self[n] ELSE IsNew(Result[n])
              [] OTHER -> IsNew(Result[n])

\* C10: no operator changes its inputs: the tables keep their names and
\* cells, and the only change to what existed is an index built.  A column
\* the operator did not recompute (select_columns, deselect_column,
\* rename_column, the other columns of map_column, create_fixed_column,
\* create_column and concatenate_columns, filter_column retaining every row)
\* is the input's instance; a remapped or recomputed column is a new instance
\* without index.
C10_InputsKept == [](Sharing) /\ [][InputsKept]_vars

\* C10 witness: filter_column has retained every row of a table with rows, one
\* of whose columns has its index built: the result shares it.
C10_Witness ==
    /\ Called("filter_column")
    /\ last.flag
    /\ Table_rows_count(heap, Self) >= 1
    /\ \E n \in DOMAIN Result :
          Result[n] = Self[n] /\ Column_has_index(heap[Result[n]])

\* A call of diff_on_columns, join_on_columns or group_by_column that returns
\* Err leaves has_index() of every column instance as it was.
NoIndexOnError ==
    (/\ last'.op \in {"diff_on_columns", "join_on_columns", "group_by_column"}
     /\ last'.res = "err") =>
        \A c \in DOMAIN heap :
            Column_has_index(heap'[c]) = Column_has_index(heap[c])

\* C11: a failing operator has no side effect: when diff_on_columns,
\* join_on_columns or group_by_column returns Err, the index-cache state of
\* every column of every input table is the same as before the call.
C11_ErrorNoSideEffect == [][NoIndexOnError]_vars

\* C12: get_index is re-entrant: a call of get_index, directly or inside
\* diff_on_columns, join_on_columns or group_by_column, made while a view
\* returned by an earlier get_index on the same column instance is still held,
\* succeeds; it never panics on the cache's borrow state.
C12_Reentrant ==
    last.op \in {"get_index", "diff_on_columns", "join_on_columns", "group_by_column"} =>
        last.res # "panic"

====
